---- MODULE Spec2Model ----
(***************************************************************************)
(* Model of the file converter (App, part_001) and of its chat side panel  *)
(* (components/ChatSidebar.tsx).                                           *)
(*                                                                         *)
(* Strings whose characters matter (paths, names, extensions) are          *)
(* sequences of one-character strings, so that split, join, startsWith and *)
(* pop are computed as the code computes them.  Chat texts are sequences   *)
(* of text fragments; string concatenation is \o.                          *)
(***************************************************************************)
EXTENDS Integers, Sequences, FiniteSets, TLC

VARIABLES
  \* App (part_001)
  processedFiles,        \* useState<ProcessedFile[]>: the WorkingSet
  view,                  \* 'upload' | 'files'
  targetConversionType,  \* the selected target extension
  isLoading,             \* App's loading flag
  localStorage,          \* the browser's key-value store, one field per key
  alertOpen,             \* the alert() dialog on screen, "none" without one
  batches,               \* ingestions in flight, oldest first
  ingested,              \* history: the ingestion that produced the WorkingSet
  \* ChatSidebar (components/ChatSidebar.tsx)
  messages,              \* useState<Message[]>
  input,                 \* the textarea's text
  attachedImage,         \* an image is attached
  chatIsLoading,         \* ChatSidebar's loading flag
  send,                  \* the handleSendMessage call in flight
  \* the rename of reader.onload applied to one path (rename specification)
  rn,
  \* the start of the page: which components have mounted, and the store
  \* they found (start specification)
  boot,
  \* one readAllDirectoryEntries call on the reader of a dropped directory
  \* (walk specification)
  walk,
  \* App's folder flag and what an export has handed to the browser last
  \* (export specification)
  preserveFolders,
  archive,
  \* one POST request to the chat endpoint (endpoint specification)
  post

appVars == <<processedFiles, view, targetConversionType, isLoading, localStorage,
             alertOpen, batches, ingested>>
chatVars == <<messages, input, attachedImage, chatIsLoading, send>>
otherVars == <<boot, walk, preserveFolders, archive, post>>
nonAppVars == <<messages, input, attachedImage, chatIsLoading, send, rn, otherVars>>
vars == <<processedFiles, view, targetConversionType, isLoading, localStorage,
          alertOpen, batches, ingested, messages, input, attachedImage,
          chatIsLoading, send, rn, otherVars>>

\* --------------------------------------------------------------- bounds
\* longest relative path tried by the rename specification
MaxPathLen == 4
\* ingestions in flight at the same time
MaxInFlight == 1
\* chunks one response stream delivers at most
MaxChunks == 2
\* a send is started only while the conversation is shorter than this
MaxMessages == 3
\* the non-empty batches a directory reader hands out before it runs dry
MaxBatches == 2
\* the ingestions in flight at once in the race specification
MaxOverlap == 2
\* the base64 characters of file payload one localStorage value may hold
\* before setItem throws QuotaExceededError
StorageQuota == 7

\* ----------------------------------------------------- string helpers
Last(s) == s[Len(s)]
Front(s) == SubSeq(s, 1, Len(s) - 1)

\* String.prototype.indexOf for one character, 1-based, 0 when absent
IndexOf(s, c) ==
  IF \E i \in 1..Len(s) : s[i] = c
  THEN CHOOSE i \in 1..Len(s) : s[i] = c /\ \A j \in 1..(i - 1) : s[j] # c
  ELSE 0

\* String.prototype.split(c): "" gives [""], "a/" gives ["a", ""]
RECURSIVE split(_, _)
split(s, c) ==
  LET i == IndexOf(s, c)
  IN  IF i = 0 THEN <<s>>
      ELSE <<SubSeq(s, 1, i - 1)>> \o split(SubSeq(s, i + 1, Len(s)), c)

\* Array.prototype.join(c)
RECURSIVE join(_, _)
join(parts, c) ==
  IF Len(parts) = 0 THEN <<>>
  ELSE IF Len(parts) = 1 THEN parts[1]
  ELSE parts[1] \o <<c>> \o join(Tail(parts), c)

\* Array.prototype.filter(Boolean) on an array of strings: drops ""
RECURSIVE filterBoolean(_)
filterBoolean(parts) ==
  IF Len(parts) = 0 THEN <<>>
  ELSE IF parts[1] = <<>> THEN filterBoolean(Tail(parts))
  ELSE <<parts[1]>> \o filterBoolean(Tail(parts))

\* String.prototype.startsWith(c) for one character
startsWith(s, c) == Len(s) > 0 /\ s[1] = c

\* const ConversionOptions = ['ts', 'tsx', 'js', 'jsx', 'json', 'txt', 'html', 'css', 'md']
ConversionOptions ==
  { <<"t","s">>, <<"t","s","x">>, <<"j","s">>, <<"j","s","x">>,
    <<"j","s","o","n">>, <<"t","x","t">>, <<"h","t","m","l">>,
    <<"c","s","s">>, <<"m","d">> }

\* ------------------------------------------- reader.onload: the rename
\* getFileType = (name) => name.split('.').pop() || 'file'
getFileType(name) ==
  LET ext == Last(split(name, "."))
  IN  IF ext = <<>> THEN <<"f","i","l","e">> ELSE ext

\* two faulty variants of nameParts: the pop without its length test, and no
\* pop at all
namePartsAlwaysPop(nameAndExt) == Front(split(nameAndExt, "."))
namePartsNeverPop(nameAndExt) == split(nameAndExt, ".")

\* nameParts after "if (nameParts.length > 1) { nameParts.pop(); }"
nameParts(nameAndExt) ==
  LET parts == split(nameAndExt, ".")
  IN  IF Len(parts) > 1 THEN Front(parts) ELSE parts

\* newName = `${nameParts.join('.')}.${targetConversionType}`
newName(nameAndExt, target) == join(nameParts(nameAndExt), ".") \o <<".">> \o target

\* newPath = [...pathParts, newName].filter(Boolean).join('/')
newPath(originalPath, target) ==
  LET parts == split(originalPath, "/")
      pathParts == Front(parts)
      nameAndExt == Last(parts)
  IN  join(filterBoolean(pathParts \o <<newName(nameAndExt, target)>>), "/")

\* id: `${originalPath}-${item.file.lastModified}-${item.file.size}`
fileId(item) == <<item.path, item.file.lastModified, item.file.size>>

\* the ProcessedFile that reader.onload resolves with; reader.result holds the
\* file's bytes
onload(item, target) ==
  [ id |-> fileId(item),
    originalPath |-> item.path,
    newPath |-> newPath(item.path, target),
    content |-> item.file.content,
    originalType |-> getFileType(item.path),
    newType |-> target ]

\* ------------------------------------------------- persistence helpers
\* window.btoa over the bytes: sextets 0..63, 64 stands for the '=' padding
RECURSIVE arrayBufferToBase64(_)
arrayBufferToBase64(bytes) ==
  IF Len(bytes) = 0 THEN <<>>
  ELSE IF Len(bytes) = 1 THEN
    << bytes[1] \div 4, (bytes[1] % 4) * 16, 64, 64 >>
  ELSE IF Len(bytes) = 2 THEN
    << bytes[1] \div 4, (bytes[1] % 4) * 16 + bytes[2] \div 16,
       (bytes[2] % 16) * 4, 64 >>
  ELSE
    << bytes[1] \div 4, (bytes[1] % 4) * 16 + bytes[2] \div 16,
       (bytes[2] % 16) * 4 + bytes[3] \div 64, bytes[3] % 64 >>
    \o arrayBufferToBase64(SubSeq(bytes, 4, Len(bytes)))

\* window.atob: the padding is dropped, a rest of one character is no base64
atobThrows(base64) ==
  LET data == SelectSeq(base64, LAMBDA c : c # 64)
  IN  \/ Len(data) % 4 = 1
      \/ \E i \in 1..Len(base64) : base64[i] \notin 0..64

\* window.atob and charCodeAt: four sextets give three bytes, a rest of two
\* sextets one byte, a rest of three sextets two bytes
RECURSIVE base64ToArrayBuffer(_)
base64ToArrayBuffer(base64) ==
  LET data == SelectSeq(base64, LAMBDA c : c # 64)
  IN  IF Len(data) < 2 THEN <<>>
      ELSE IF Len(data) = 2 THEN
        << data[1] * 4 + data[2] \div 16 >>
      ELSE IF Len(data) = 3 THEN
        << data[1] * 4 + data[2] \div 16, (data[2] % 16) * 16 + data[3] \div 4 >>
      ELSE
        << data[1] * 4 + data[2] \div 16, (data[2] % 16) * 16 + data[3] \div 4,
           (data[3] % 4) * 64 + data[4] >>
        \o base64ToArrayBuffer(SubSeq(data, 5, Len(data)))

\* a key of localStorage: absent (getItem gives null), or holding a text:
\* the JSON of a value ("value"), the JSON of something that is no array
\* ("object"), or no JSON at all ("malformed")
NoItem == [present |-> FALSE, json |-> "none", value |-> <<>>]
Item(v) == [present |-> TRUE, json |-> "value", value |-> v]
MalformedItem == [present |-> TRUE, json |-> "malformed", value |-> <<>>]
ObjectItem == [present |-> TRUE, json |-> "object", value |-> <<>>]

\* the payload characters of a serialized list of files
RECURSIVE payloadSize(_)
payloadSize(serializableFiles) ==
  IF Len(serializableFiles) = 0 THEN 0
  ELSE Len(serializableFiles[1].content) + payloadSize(Tail(serializableFiles))

\* a faulty variant of saveStateToLocalStorage: the empty list is stored too
saveStateNeverRemoves(store, files) ==
  IF store.throws THEN store
  ELSE [store EXCEPT !.fileConverterState =
          Item([i \in 1..Len(files) |->
                 [files[i] EXCEPT !.content = arrayBufferToBase64(files[i].content)]])]

\* saveStateToLocalStorage: removeItem on the empty list, else setItem of the
\* files with their content base64-encoded; a throwing store or a value over
\* the quota is caught and logged, the store stays as it was
saveStateToLocalStorage(store, files) ==
  IF store.throws THEN store
  ELSE IF Len(files) = 0
  THEN [store EXCEPT !.fileConverterState = NoItem]
  ELSE LET serializableFiles ==
             [i \in 1..Len(files) |->
               [files[i] EXCEPT !.content = arrayBufferToBase64(files[i].content)]]
       IN  IF payloadSize(serializableFiles) > StorageQuota THEN store
           ELSE [store EXCEPT !.fileConverterState = Item(serializableFiles)]

\* a faulty variant of loadStateFromLocalStorage: a payload that does not
\* decode is loaded as an empty payload
loadStateSkipsBadPayload(store) ==
  LET savedState == store.fileConverterState
  IN  IF store.throws \/ ~ savedState.present \/ savedState.json # "value" THEN <<>>
      ELSE [i \in 1..Len(savedState.value) |->
             [savedState.value[i] EXCEPT !.content =
                IF atobThrows(@) THEN <<>> ELSE base64ToArrayBuffer(@)]]

\* loadStateFromLocalStorage: the parsed files with their content decoded;
\* the empty list when the key is absent and when getItem, JSON.parse, map
\* (on something that is no array) or atob throws
loadStateFromLocalStorage(store) ==
  LET savedState == store.fileConverterState
  IN  IF store.throws \/ ~ savedState.present \/ savedState.json # "value" THEN <<>>
      ELSE IF \E i \in 1..Len(savedState.value) : atobThrows(savedState.value[i].content)
      THEN <<>>
      ELSE [i \in 1..Len(savedState.value) |->
             [savedState.value[i] EXCEPT !.content = base64ToArrayBuffer(@)]]

\* saveChatToLocalStorage
saveChatToLocalStorage(store, msgs) ==
  IF store.throws THEN store
  ELSE IF Len(msgs) = 0
  THEN [store EXCEPT !.chatHistory = NoItem]
  ELSE [store EXCEPT !.chatHistory = Item(msgs)]

\* saveChatToLocalStorage of the second copy of the component in
\* ChatSidebar.tsx: setItem whatever the length
saveChatToLocalStorage2(store, msgs) ==
  IF store.throws THEN store
  ELSE [store EXCEPT !.chatHistory = Item(msgs)]

\* loadChatFromLocalStorage: JSON.parse of the stored text as it is; the
\* empty list when the key is absent and when getItem or JSON.parse throws
loadChatFromLocalStorage(store) ==
  LET savedState == store.chatHistory
  IN  IF store.throws \/ ~ savedState.present \/ savedState.json = "malformed" THEN <<>>
      ELSE savedState.value

\* ------------------------------------------------ files and entries
\* a browser File; size is the number of bytes
File(name, rel, bytes) ==
  [ name |-> name, webkitRelativePath |-> rel, size |-> Len(bytes),
    lastModified |-> 1, content |-> bytes ]

NoFile == File(<<>>, <<>>, <<>>)

\* a FileSystemFileEntry and a FileSystemDirectoryEntry; the reader of a
\* directory hands out readBatches one call at a time
FileEntry(fullPath, file) ==
  [ isFile |-> TRUE, isDirectory |-> FALSE, fullPath |-> fullPath,
    file |-> file, readBatches |-> <<>> ]
DirectoryEntry(fullPath, readBatches) ==
  [ isFile |-> FALSE, isDirectory |-> TRUE, fullPath |-> fullPath,
    file |-> NoFile, readBatches |-> readBatches ]

fileAB == File(<<"a",".","b">>, <<>>, <<65>>)
fileHidden == File(<<".","h">>, <<>>, <<66, 67>>)
fileZero == File(<<"z">>, <<>>, <<>>)
fileC == File(<<"c">>, <<>>, <<68, 69, 70>>)

\* what can be dragged onto the window
EntryPool ==
  { FileEntry(<<"/","z">>, fileZero),
    DirectoryEntry(<<"/","d",".","x">>,
      << << FileEntry(<<"/","d",".","x","/",".","h">>, fileHidden),
            FileEntry(<<"/","d",".","x","/","c">>, fileC) >>,
         << FileEntry(<<"/","d",".","x","/","a",".","b">>, fileAB) >>,
         << >> >>) }

\* dataTransfer.files of a browser without webkitGetAsEntry
FilePool == { fileAB, fileHidden, fileZero }

\* e.target.files of the file input: single files, and files of a picked
\* folder, which carry webkitRelativePath
InputPool ==
  { fileHidden,
    File(<<".","h">>, <<"d",".","x","/",".","h">>, <<66, 67>>) }

\* the non-empty sequences of distinct elements of S
DistinctSeqs(S) ==
  { q \in UNION { [1..k -> S] : k \in 1..Cardinality(S) } :
      \A i, j \in 1..Len(q) : i # j => q[i] # q[j] }

\* a DataTransfer: with webkitGetAsEntry (items) or without it (files)
DataTransfers ==
  { [ hasGetAsEntry |-> TRUE, items |-> q, files |-> <<>> ] :
      q \in DistinctSeqs(EntryPool) }
  \cup
  { [ hasGetAsEntry |-> FALSE, items |-> <<>>, files |-> q ] :
      q \in DistinctSeqs(FilePool) }

\* Array.prototype.flat() of an array of arrays
RECURSIVE flat(_)
flat(arrays) ==
  IF Len(arrays) = 0 THEN <<>> ELSE arrays[1] \o flat(Tail(arrays))

\* readAllDirectoryEntries: readEntries is called again after every non-empty
\* batch; the first empty batch (or the reader running dry) resolves
RECURSIVE readAllDirectoryEntries(_)
readAllDirectoryEntries(readBatches) ==
  IF Len(readBatches) = 0 \/ Len(readBatches[1]) = 0 THEN <<>>
  ELSE readBatches[1] \o readAllDirectoryEntries(Tail(readBatches))

\* getFilesFromEntry: a file gives one item whose path is fullPath without
\* its leading '/', a directory the items of its entries, in order
RECURSIVE getFilesFromEntry(_)
getFilesFromEntry(entry) ==
  IF entry.isFile THEN
    << [ file |-> entry.file,
         path |-> IF startsWith(entry.fullPath, "/")
                  THEN Tail(entry.fullPath) ELSE entry.fullPath ] >>
  ELSE IF entry.isDirectory THEN
    LET entries == readAllDirectoryEntries(entry.readBatches)
    IN  flat([i \in 1..Len(entries) |-> getFilesFromEntry(entries[i])])
  ELSE <<>>

\* the filter of the hierarchical branch: f => !f.path.split('/').pop()?.startsWith('.')
keepEntryItem(f) == ~ startsWith(Last(split(f.path, "/")), ".")

\* the filter of the flat branch: file => !file.name.startsWith('.') && file.size > 0
keepFlatFile(file) == ~ startsWith(file.name, ".") /\ file.size > 0

\* extractFilesFromDataTransfer
extractFilesFromDataTransfer(dataTransfer) ==
  IF Len(dataTransfer.items) > 0 /\ dataTransfer.hasGetAsEntry THEN
    LET entries == dataTransfer.items
        allFiles == flat([i \in 1..Len(entries) |-> getFilesFromEntry(entries[i])])
    IN  SelectSeq(allFiles, keepEntryItem)
  ELSE
    LET kept == SelectSeq(dataTransfer.files, keepFlatFile)
    IN  [i \in 1..Len(kept) |-> [file |-> kept[i], path |-> kept[i].name]]

\* the filter of handleFileChange:
\* file => !(file.webkitRelativePath === "" && file.name.startsWith('.'))
keepInputFile(file) ==
  ~ (file.webkitRelativePath = <<>> /\ startsWith(file.name, "."))

\* handleFileChange's items: path is webkitRelativePath || file.name
inputItems(files) ==
  LET kept == SelectSeq(files, keepInputFile)
  IN  [i \in 1..Len(kept) |->
        [ file |-> kept[i],
          path |-> IF kept[i].webkitRelativePath # <<>>
                   THEN kept[i].webkitRelativePath ELSE kept[i].name ]]

\* ------------------------------------------------------------ App state
\* the target extensions the user switches between
TargetTypes == { <<"t","s">>, <<"m","d">> }

\* no ingestion has produced the WorkingSet (it is empty from the start or
\* was cleared); otherwise the source, the items and the completion order of
\* the reads of the ingestion that did, and whether an ingestion started
\* after it had resolved before it (stale)
NoIngestion == [ source |-> "none", items |-> <<>>, done |-> <<>>, stale |-> FALSE ]

NoDataTransfer == [ hasGetAsEntry |-> FALSE, items |-> <<>>, files |-> <<>> ]

\* one ingestion in flight.  stage "extract": handleDroppedItems awaits
\* extractFilesFromDataTransfer; stage "read": handleFileProcessing awaits
\* Promise.all of the reads; done lists the items whose onload has fired, in
\* completion order; target is the targetConversionType the handler closed
\* over; overtaken is history: an ingestion started later has resolved
Batch(source, stage, dataTransfer, items, target) ==
  [ source |-> source, stage |-> stage, dataTransfer |-> dataTransfer,
    items |-> items, target |-> target, done |-> <<>>, overtaken |-> FALSE ]

RemoveAt(q, k) == SubSeq(q, 1, k - 1) \o SubSeq(q, k + 1, Len(q))

IdleRename == [ pc |-> "idle", path |-> <<>>, target |-> <<>>,
                once |-> <<>>, twice |-> <<>> ]
\* the latest handleSendMessage call.  pc: where it stands ("image": awaiting
\* fileToBase64, "fetch": awaiting fetch, "read": awaiting reader.read()) or how
\* it ended ("done": end of stream, "statusError": non-success status,
\* "transportError": fetch or reader.read() rejected, "imageError").
\* isFirstChunk is the local variable; the rest is history: received lists the
\* decoded chunks in arrival order, base is the length of the conversation
\* right after the user message was appended, errorBody the parsed error body
IdleSend == [ pc |-> "idle", isFirstChunk |-> TRUE, received |-> <<>>,
              base |-> 0, errorBody |-> <<>>, promptText |-> <<>>,
              contents |-> <<>> ]

\* the store of a first visit, after the mount effects
EmptyStore == [ throws |-> FALSE,
                fileConverterState |-> NoItem,
                chatHistory |-> NoItem,
                fileConverterTargetType |-> Item(<<"t","s">>),
                fileConverterPreserveFolders |-> Item("true") ]

\* both components have mounted on the store of a first visit
Mounted == [ app |-> "mounted", chat |-> "mounted", stored |-> EmptyStore ]

\* the state after mount with an empty store: the mount effects have written
\* the target type and the folder flag, and removed the working-set key
InitApp ==
  /\ processedFiles = <<>>
  /\ view = "upload"
  /\ targetConversionType = <<"t","s">>
  /\ isLoading = FALSE
  /\ localStorage = EmptyStore
  /\ alertOpen = "none"
  /\ batches = <<>>
  /\ ingested = NoIngestion

InitChat ==
  /\ messages = <<>>
  /\ input = <<>>
  /\ attachedImage = FALSE
  /\ chatIsLoading = FALSE
  /\ send = IdleSend

\* no directory is being read, nothing was exported, no request is handled
IdleWalk == [ pc |-> "idle", readBatches |-> <<>>, calls |-> 0,
              allEntries |-> <<>>, files |-> <<>> ]
NoArchive == [ made |-> FALSE, files |-> <<>>, preserveFolders |-> TRUE, zip |-> <<>>,
               download |-> <<>>, text |-> <<>> ]
NoResponse == [ sent |-> FALSE, status |-> 0, contentType |-> "", error |-> <<>> ]
IdlePost == [ pc |-> "idle", body |-> "", apiKey |-> FALSE, failure |-> "none",
              response |-> NoResponse, stream |-> "none", chunks |-> <<>>,
              enqueued |-> <<>> ]

InitOther ==
  /\ walk = IdleWalk
  /\ preserveFolders = TRUE
  /\ archive = NoArchive
  /\ post = IdlePost

Init == InitApp /\ InitChat /\ rn = IdleRename /\ boot = Mounted /\ InitOther

\* a new ingestion may start: no dialog blocks the page.  Nothing in the code
\* limits the ingestions in flight; the specifications do
CanStart == alertOpen = "none"

\* handleFileProcessing up to its await: nothing to read clears the loading
\* flag and returns, otherwise one FileReader is started per item
handleFileProcessing(items, source, others) ==
  IF Len(items) = 0
  THEN /\ isLoading' = FALSE
       /\ batches' = others
  ELSE /\ isLoading' = TRUE
       /\ batches' = Append(others,
            Batch(source, "read", NoDataTransfer, items, targetConversionType))

\* handleDrop -> handleDroppedItems, hierarchical drop: the loading flag is
\* set and the entries are read asynchronously
DropEntries(dataTransfer) ==
  /\ CanStart
  /\ Len(dataTransfer.items) > 0 /\ dataTransfer.hasGetAsEntry
  /\ isLoading' = TRUE
  /\ batches' = Append(batches,
       Batch("entries", "extract", dataTransfer, <<>>, targetConversionType))
  /\ UNCHANGED <<processedFiles, view, targetConversionType, localStorage,
                 alertOpen, ingested>>
  /\ UNCHANGED nonAppVars

\* handleDrop -> handleDroppedItems, flat drop: extractFilesFromDataTransfer
\* has nothing to wait for, handleFileProcessing starts in the same task
DropFiles(dataTransfer) ==
  /\ CanStart
  /\ ~ (Len(dataTransfer.items) > 0 /\ dataTransfer.hasGetAsEntry)
  /\ handleFileProcessing(extractFilesFromDataTransfer(dataTransfer), "files", batches)
  /\ UNCHANGED <<processedFiles, view, targetConversionType, localStorage,
                 alertOpen, ingested>>
  /\ UNCHANGED nonAppVars

\* the directory reads of batch k have all called back: handleDroppedItems
\* goes on with handleFileProcessing(items), under the target type it closed over
ExtractResolve(k) ==
  /\ k \in 1..Len(batches)
  /\ alertOpen = "none"
  /\ batches[k].stage = "extract"
  /\ LET b == batches[k]
         items == extractFilesFromDataTransfer(b.dataTransfer)
     IN  IF Len(items) = 0
         THEN /\ isLoading' = FALSE
              /\ batches' = RemoveAt(batches, k)
         ELSE /\ isLoading' = TRUE
              /\ batches' = [batches EXCEPT ![k] =
                   [Batch(b.source, "read", NoDataTransfer, items, b.target)
                      EXCEPT !.overtaken = b.overtaken]]
  /\ UNCHANGED <<processedFiles, view, targetConversionType, localStorage,
                 alertOpen, ingested>>
  /\ UNCHANGED nonAppVars

\* entry.file or readEntries calls its error callback: the catch of
\* handleDroppedItems alerts and clears the loading flag
ExtractReject(k) ==
  /\ k \in 1..Len(batches)
  /\ batches[k].stage = "extract"
  /\ alertOpen = "none"
  /\ alertOpen' = "Could not read dropped items."
  /\ isLoading' = FALSE
  /\ batches' = RemoveAt(batches, k)
  /\ UNCHANGED <<processedFiles, view, targetConversionType, localStorage, ingested>>
  /\ UNCHANGED nonAppVars

\* handleFileChange: the change event of the file input
FileChange(files) ==
  /\ CanStart
  /\ Len(files) > 0
  /\ handleFileProcessing(inputItems(files), "input", batches)
  /\ UNCHANGED <<processedFiles, view, targetConversionType, localStorage,
                 alertOpen, ingested>>
  /\ UNCHANGED nonAppVars

\* a faulty variant of PromiseAll: the results pushed as the reads complete
PromiseAllByCompletion(b) ==
  [k \in 1..Len(b.done) |-> onload(b.items[b.done[k]], b.target)]

\* what Promise.all(filePromises) resolves with: one ProcessedFile per item,
\* at the position of its item
PromiseAll(b) ==
  [i \in 1..Len(b.items) |-> onload(b.items[i], b.target)]

\* a faulty variant of catch: the files read so far become the WorkingSet
catchKeepsLoaded(files, b) ==
  [k \in 1..Len(b.done) |-> onload(b.items[b.done[k]], b.target)]

\* processedFiles after the catch block of handleFileProcessing, which logs
\* and alerts only
catch(files, b) == files

\* the items of b whose read has not called back yet
Pending(b) == { i \in 1..Len(b.items) : \A k \in 1..Len(b.done) : b.done[k] # i }

\* reader.onload of item i of batch k while other reads are pending
ReadLoad(k, i) ==
  /\ k \in 1..Len(batches)
  /\ alertOpen = "none"
  /\ batches[k].stage = "read"
  /\ i \in Pending(batches[k])
  /\ Pending(batches[k]) # {i}
  /\ batches' = [batches EXCEPT ![k].done = Append(@, i)]
  /\ UNCHANGED <<processedFiles, view, targetConversionType, isLoading,
                 localStorage, alertOpen, ingested>>
  /\ UNCHANGED nonAppVars

\* reader.onload of the last pending item: Promise.all resolves,
\* setProcessedFiles(newFiles), setView('files'), finally setIsLoading(false);
\* the effect on processedFiles saves them and sets the view
ReadLoadLast(k, i) ==
  /\ k \in 1..Len(batches)
  /\ alertOpen = "none"
  /\ batches[k].stage = "read"
  /\ Pending(batches[k]) = {i}
  /\ LET b == [batches[k] EXCEPT !.done = Append(@, i)]
         newFiles == PromiseAll(b)
     IN  /\ processedFiles' = newFiles
         /\ localStorage' = saveStateToLocalStorage(localStorage, newFiles)
         /\ view' = IF Len(newFiles) = 0 THEN "upload" ELSE "files"
         /\ ingested' = [source |-> b.source, items |-> b.items, done |-> b.done,
                         stale |-> b.overtaken]
  /\ isLoading' = FALSE
  /\ batches' = RemoveAt([j \in 1..Len(batches) |->
                            IF j < k THEN [batches[j] EXCEPT !.overtaken = TRUE]
                            ELSE batches[j]], k)
  /\ UNCHANGED <<targetConversionType, alertOpen>>
  /\ UNCHANGED nonAppVars

\* reader.onerror of item i: Promise.all rejects at once, the catch block
\* logs and alerts, finally setIsLoading(false)
ReadError(k, i) ==
  /\ k \in 1..Len(batches)
  /\ alertOpen = "none"
  /\ batches[k].stage = "read"
  /\ i \in Pending(batches[k])
  /\ LET files == catch(processedFiles, batches[k])
     IN  /\ processedFiles' = files
         /\ localStorage' = IF files = processedFiles THEN localStorage
                            ELSE saveStateToLocalStorage(localStorage, files)
         /\ view' = IF files = processedFiles THEN view
                    ELSE IF Len(files) = 0 THEN "upload" ELSE "files"
  /\ alertOpen' = "An error occurred while reading file"
  /\ isLoading' = FALSE
  /\ batches' = RemoveAt(batches, k)
  /\ UNCHANGED <<targetConversionType, ingested>>
  /\ UNCHANGED nonAppVars

\* handleClear (the button is disabled on an empty list): setProcessedFiles([]);
\* the effect removes the key and shows the upload view
Clear ==
  /\ alertOpen = "none"
  /\ view = "files"
  /\ Len(processedFiles) > 0
  /\ processedFiles' = <<>>
  /\ localStorage' = saveStateToLocalStorage(localStorage, <<>>)
  /\ view' = "upload"
  /\ ingested' = NoIngestion
  /\ UNCHANGED <<targetConversionType, isLoading, alertOpen, batches>>
  /\ UNCHANGED nonAppVars

\* a faulty variant of SetTargetType: the files of the WorkingSet are renamed
\* to the new target
SetTargetTypeRenames(e) ==
  /\ alertOpen = "none"
  /\ view = "upload"
  /\ e # targetConversionType
  /\ targetConversionType' = e
  /\ processedFiles' = [i \in 1..Len(processedFiles) |->
                          [processedFiles[i] EXCEPT
                             !.newPath = newPath(processedFiles[i].originalPath, e),
                             !.newType = e]]
  /\ localStorage' = [localStorage EXCEPT !.fileConverterTargetType = Item(e)]
  /\ UNCHANGED <<view, isLoading, alertOpen, batches, ingested>>
  /\ UNCHANGED nonAppVars

\* the select of the upload screen: setTargetConversionType; its effect
\* stores the value
SetTargetType(e) ==
  /\ alertOpen = "none"
  /\ view = "upload"
  /\ e # targetConversionType
  /\ targetConversionType' = e
  /\ localStorage' = [localStorage EXCEPT !.fileConverterTargetType = Item(e)]
  /\ UNCHANGED <<processedFiles, view, isLoading, alertOpen, batches, ingested>>
  /\ UNCHANGED nonAppVars

\* the user closes the alert() dialog; no handler runs while it is open
DismissAlert ==
  /\ alertOpen # "none"
  /\ alertOpen' = "none"
  /\ UNCHANGED <<processedFiles, view, targetConversionType, isLoading,
                 localStorage, batches, ingested>>
  /\ UNCHANGED nonAppVars

Next ==
  \/ \E dataTransfer \in DataTransfers :
       Len(batches) < MaxInFlight /\ DropEntries(dataTransfer)
  \/ \E dataTransfer \in DataTransfers :
       Len(batches) < MaxInFlight /\ DropFiles(dataTransfer)
  \/ \E files \in DistinctSeqs(InputPool) :
       Len(batches) < MaxInFlight /\ FileChange(files)
  \/ \E k \in 1..Len(batches) : ExtractResolve(k)
  \/ \E k \in 1..Len(batches) : ExtractReject(k)
  \/ \E k \in 1..Len(batches) : \E i \in 1..Len(batches[k].items) : ReadLoad(k, i)
  \/ \E k \in 1..Len(batches) : \E i \in 1..Len(batches[k].items) : ReadLoadLast(k, i)
  \/ \E k \in 1..Len(batches) : \E i \in 1..Len(batches[k].items) : ReadError(k, i)
  \/ DismissAlert
  \/ Clear
  \/ \E e \in TargetTypes : SetTargetType(e)

Spec == Init /\ [][Next]_vars

\* ------------------------------------------------ overlapping ingestions
\* the drops of the race specification: a folder of two files, and one file
\* from a browser without webkitGetAsEntry
RaceTransfers ==
  { dataTransfer \in DataTransfers :
      \/ Len(dataTransfer.items) = 1 /\ dataTransfer.items[1].isDirectory
      \/ dataTransfer.files = << fileAB >> }

\* drops follow each other while earlier ingestions are in flight
NextRace ==
  \/ \E dataTransfer \in RaceTransfers :
       Len(batches) < MaxOverlap /\ DropEntries(dataTransfer)
  \/ \E dataTransfer \in RaceTransfers :
       Len(batches) < MaxOverlap /\ DropFiles(dataTransfer)
  \/ \E k \in 1..Len(batches) : ExtractResolve(k)
  \/ \E k \in 1..Len(batches) : ExtractReject(k)
  \/ \E k \in 1..Len(batches) : \E i \in 1..Len(batches[k].items) : ReadLoad(k, i)
  \/ \E k \in 1..Len(batches) : \E i \in 1..Len(batches[k].items) : ReadLoadLast(k, i)
  \/ \E k \in 1..Len(batches) : \E i \in 1..Len(batches[k].items) : ReadError(k, i)
  \/ DismissAlert
  \/ Clear

SpecRace == Init /\ [][NextRace]_vars

\* --------------------------------------------- the rename specification
PathChars == { "a", ".", "/" }

\* relative paths as the browser hands them out: no leading or trailing '/',
\* no empty segment
WellFormed(p) ==
  /\ Len(p) > 0
  /\ p[1] # "/" /\ p[Len(p)] # "/"
  /\ \A i \in 1..(Len(p) - 1) : ~ (p[i] = "/" /\ p[i + 1] = "/")

Paths == { p \in UNION { [1..n -> PathChars] : n \in 1..MaxPathLen } : WellFormed(p) }

InitRename ==
  /\ InitApp /\ InitChat /\ boot = Mounted /\ InitOther
  /\ rn \in { [ pc |-> "start", path |-> p, target |-> e,
                once |-> <<>>, twice |-> <<>> ] :
              p \in Paths, e \in ConversionOptions }

\* reader.onload computes newPath from the item's path
RenameOnce ==
  /\ rn.pc = "start"
  /\ rn' = [rn EXCEPT !.pc = "once", !.once = newPath(rn.path, rn.target)]
  /\ UNCHANGED <<appVars, chatVars, otherVars>>

\* a file that carries the renamed path is ingested again
RenameTwice ==
  /\ rn.pc = "once"
  /\ rn' = [rn EXCEPT !.pc = "twice", !.twice = newPath(rn.once, rn.target)]
  /\ UNCHANGED <<appVars, chatVars, otherVars>>

NextRename == RenameOnce \/ RenameTwice

SpecRename == InitRename /\ [][NextRename]_vars

\* ------------------------------------------------------- ChatSidebar
\* what the textarea may hold: a question, or only white space
Inputs == { <<"q">>, <<" ">> }

\* String.prototype.trim on a text of fragments, " " being white space
RECURSIVE trimStart(_)
trimStart(text) ==
  IF Len(text) > 0 /\ text[1] = " " THEN trimStart(Tail(text)) ELSE text
RECURSIVE trimEnd(_)
trimEnd(text) ==
  IF Len(text) > 0 /\ Last(text) = " " THEN trimEnd(Front(text)) ELSE text
trim(text) == trimEnd(trimStart(text))

\* the decoded chunks a stream may deliver
Chunks == { <<"a">>, <<"b">> }

\* error texts of the endpoint's JSON body {error: X}; "" is falsy
ErrorTexts == { <<"X">>, <<>> }
\* response.statusText; empty over HTTP/2
StatusTexts == { <<"Internal Server Error">>, <<>> }
\* the bodies of a non-success response: a JSON error object, or no JSON at all
ErrorBodies == { [parses |-> TRUE, error |-> x] : x \in ErrorTexts }
               \cup { [parses |-> FALSE, error |-> <<>>] }

Message(role, text, image) == [ role |-> role, text |-> text, image |-> image ]

\* a faulty variant of appendUserMessage: the spread of prev forgotten
replaceByUserMessage(prev, text, image) ==
  << Message("user", text, IF image THEN "url" ELSE "undefined") >>

\* setMessages(prev => [...prev, userMessage])
appendUserMessage(prev, text, image) ==
  Append(prev, Message("user", text, IF image THEN "url" ELSE "undefined"))

\* first chunk: setMessages(prev => [...prev, { role: 'model', text: chunk }])
appendModelMessage(prev, chunk) == Append(prev, Message("model", chunk, "undefined"))

\* a faulty variant of appendChunk: every chunk becomes a message of its own
appendChunkAsMessage(prev, chunk) == Append(prev, Message("model", chunk, "undefined"))

\* later chunks: the updater appends the chunk to the last message when that
\* is a model message, and returns prev otherwise
appendChunk(prev, chunk) ==
  LET lastMessageIndex == Len(prev)
  IN  IF lastMessageIndex >= 1 /\ prev[lastMessageIndex].role = "model"
      THEN [prev EXCEPT ![lastMessageIndex].text = @ \o chunk]
      ELSE prev

\* a faulty variant of thrownMessage: the error body is not looked at
thrownMessageStatusOnly(body, statusText) ==
  IF statusText # <<>> THEN statusText
  ELSE <<"Failed to get a response from the server.">>

\* errorBody.error || response.statusText || 'Failed to get a response from the server.'
\* where a body that is no JSON gives { error: 'Failed to parse error response.' }
thrownMessage(body, statusText) ==
  LET errorBody == IF body.parses THEN body.error
                   ELSE <<"Failed to parse error response.">>
  IN  IF errorBody # <<>> THEN errorBody
      ELSE IF statusText # <<>> THEN statusText
      ELSE <<"Failed to get a response from the server.">>

\* the catch block: setMessages(prev => [...prev, errorMessage])
appendErrorMessage(prev, errorMessageText) ==
  Append(prev, Message("model", <<"Sorry, an error occurred: ">> \o errorMessageText,
                       "undefined"))

\* String.fromCharCode for the bytes of the sample files; what is no text
\* decodes to the replacement character
fromCharCode(byte) ==
  IF byte \in 65..71
  THEN << "A", "B", "C", "D", "E", "F", "G" >>[byte - 64]
  ELSE "\\uFFFD"

\* decodeFileContent: TextDecoder('utf-8').decode, character by character
decodeFileContent(buffer) == [i \in 1..Len(buffer) |-> fromCharCode(buffer[i])]

\* Array.prototype.join for texts
RECURSIVE joinTexts(_, _)
joinTexts(texts, separator) ==
  IF Len(texts) = 0 THEN <<>>
  ELSE IF Len(texts) = 1 THEN texts[1]
  ELSE texts[1] \o separator \o joinTexts(Tail(texts), separator)

\* files.map(f => `--- START OF FILE: ... --- END OF FILE: ... ---`).join('\n\n')
fileContents(files) ==
  joinTexts([i \in 1..Len(files) |->
               <<"--- START OF FILE: ">> \o files[i].originalPath \o <<" ---\n">>
               \o decodeFileContent(files[i].content)
               \o <<"\n--- END OF FILE: ">> \o files[i].originalPath \o <<" ---">>],
            <<"\n\n">>)

\* a faulty variant of promptText: the file context is left out
promptTextQuestionOnly(files, userMessageText) == userMessageText

\* promptText: the question itself without files, else the file context
\* followed by the question
promptText(files, userMessageText) ==
  IF Len(files) > 0
  THEN <<"Based on the following file contents, please answer the user's question.\n\nFILE CONTEXT:\n">>
       \o fileContents(files)
       \o <<"\n\nUSER QUESTION:\n">> \o userMessageText
  ELSE userMessageText

\* the parts of the request: { inlineData: { mimeType, data } } and { text }
inlineDataPart == [ kind |-> "inlineData", text |-> <<>>, data |-> "base64Image" ]
textPart(text) == [ kind |-> "text", text |-> text, data |-> "" ]

\* a faulty variant of finally: the loading flag is left as it is
finallyKeepsLoading(loading) == loading

\* the finally block of handleSendMessage: setIsLoading(false)
finally(loading) == FALSE

\* setMessages followed by the effect on messages: saveChatToLocalStorage
SetMessages(msgs) ==
  /\ messages' = msgs
  /\ localStorage' = saveChatToLocalStorage(localStorage, msgs)

appOnly == <<processedFiles, view, targetConversionType, isLoading, alertOpen,
             batches, ingested>>

\* onChange of the textarea
Type(text) ==
  /\ input # text
  /\ input' = text
  /\ UNCHANGED <<messages, attachedImage, chatIsLoading, send, localStorage>>
  /\ UNCHANGED <<appOnly, rn, otherVars>>

\* handleImageAttach, and the button that removes the attached image
AttachImage ==
  /\ ~ attachedImage
  /\ attachedImage' = TRUE
  /\ UNCHANGED <<messages, input, chatIsLoading, send, localStorage>>
  /\ UNCHANGED <<appOnly, rn, otherVars>>

RemoveImage ==
  /\ attachedImage
  /\ attachedImage' = FALSE
  /\ UNCHANGED <<messages, input, chatIsLoading, send, localStorage>>
  /\ UNCHANGED <<appOnly, rn, otherVars>>

\* a faulty variant of sendIgnored: the loading flag is not looked at
sendIgnoredWhenBlank(text, image, loading) == trim(text) = <<>> /\ ~ image

\* the first line of handleSendMessage:
\* if ((!input.trim() && !attachedImage) || isLoading) return
sendIgnored(text, image, loading) ==
  (trim(text) = <<>> /\ ~ image) \/ loading

\* handleSendMessage up to its first await: fileToBase64 with an image,
\* else fetch with the text part as the only content.  files, like input, is
\* what the handler closed over, so promptText is fixed here
SendMessage ==
  /\ ~ sendIgnored(input, attachedImage, chatIsLoading)
  /\ Len(messages) < MaxMessages
  /\ SetMessages(appendUserMessage(messages, trim(input), attachedImage))
  /\ input' = <<>>
  /\ attachedImage' = FALSE
  /\ chatIsLoading' = TRUE
  /\ send' = [ pc |-> IF attachedImage THEN "image" ELSE "fetch",
               isFirstChunk |-> TRUE, received |-> <<>>,
               base |-> Len(messages') , errorBody |-> <<>>,
               promptText |-> promptText(processedFiles, trim(input)),
               contents |-> IF attachedImage THEN <<>>
                            ELSE << textPart(promptText(processedFiles, trim(input))) >> ]
  /\ UNCHANGED <<appOnly, rn, otherVars>>

\* fileToBase64 resolves: the image part is pushed and fetch is called
ImageRead ==
  /\ send.pc = "image"
  /\ send' = [send EXCEPT !.pc = "fetch",
                          !.contents = << inlineDataPart, textPart(send.promptText) >>]
  /\ UNCHANGED <<messages, input, attachedImage, chatIsLoading, localStorage>>
  /\ UNCHANGED <<appOnly, rn, otherVars>>

\* a failure caught by the catch block: the error message is appended, then
\* finally setIsLoading(false)
Caught(errorMessageText, outcome) ==
  /\ SetMessages(appendErrorMessage(messages, errorMessageText))
  /\ chatIsLoading' = finally(chatIsLoading)
  /\ send' = [send EXCEPT !.pc = outcome]
  /\ UNCHANGED <<input, attachedImage>>
  /\ UNCHANGED <<appOnly, rn, otherVars>>

\* fileToBase64 rejects with the reader's error event, which is no Error
ImageReadError ==
  /\ send.pc = "image"
  /\ Caught(<<"[object ProgressEvent]">>, "imageError")

\* fetch rejects: the request never got an answer
FetchReject ==
  /\ send.pc = "fetch"
  /\ Caught(<<"Failed to fetch">>, "transportError")

\* the endpoint answers with a non-success status: the body is parsed and the
\* error thrown
FetchErrorStatus(body, statusText) ==
  /\ send.pc = "fetch"
  /\ SetMessages(appendErrorMessage(messages, thrownMessage(body, statusText)))
  /\ chatIsLoading' = finally(chatIsLoading)
  /\ send' = [send EXCEPT !.pc = "statusError", !.errorBody = body]
  /\ UNCHANGED <<input, attachedImage>>
  /\ UNCHANGED <<appOnly, rn, otherVars>>

\* the endpoint answers with a success status and a body: the reader is taken
FetchOk ==
  /\ send.pc = "fetch"
  /\ send' = [send EXCEPT !.pc = "read", !.isFirstChunk = TRUE]
  /\ UNCHANGED <<messages, input, attachedImage, chatIsLoading, localStorage>>
  /\ UNCHANGED <<appOnly, rn, otherVars>>

\* reader.read() resolves with a chunk
ReadChunk(chunk) ==
  /\ send.pc = "read"
  /\ Len(send.received) < MaxChunks
  /\ SetMessages(IF send.isFirstChunk THEN appendModelMessage(messages, chunk)
                 ELSE appendChunk(messages, chunk))
  /\ send' = [send EXCEPT !.isFirstChunk = FALSE, !.received = Append(@, chunk)]
  /\ UNCHANGED <<input, attachedImage, chatIsLoading>>
  /\ UNCHANGED <<appOnly, rn, otherVars>>

\* reader.read() resolves with done: the loop ends, finally setIsLoading(false)
ReadDone ==
  /\ send.pc = "read"
  /\ chatIsLoading' = finally(chatIsLoading)
  /\ send' = [send EXCEPT !.pc = "done"]
  /\ UNCHANGED <<messages, input, attachedImage, localStorage>>
  /\ UNCHANGED <<appOnly, rn, otherVars>>

\* reader.read() rejects: the connection broke while streaming
ReadReject ==
  /\ send.pc = "read"
  /\ Caught(<<"network error">>, "transportError")

NextChat ==
  \/ \E text \in Inputs : Type(text)
  \/ AttachImage
  \/ RemoveImage
  \/ SendMessage
  \/ ImageRead
  \/ ImageReadError
  \/ FetchReject
  \/ \E body \in ErrorBodies, statusText \in StatusTexts : FetchErrorStatus(body, statusText)
  \/ FetchOk
  \/ \E chunk \in Chunks : ReadChunk(chunk)
  \/ ReadDone
  \/ ReadReject

SpecChat == Init /\ [][NextChat]_vars

\* the promise a send awaits settles: fileToBase64, fetch or reader.read()
Settle ==
  \/ ImageRead
  \/ ImageReadError
  \/ FetchReject
  \/ \E body \in ErrorBodies, statusText \in StatusTexts : FetchErrorStatus(body, statusText)
  \/ FetchOk
  \/ \E chunk \in Chunks : ReadChunk(chunk)
  \/ ReadDone
  \/ ReadReject

\* the chat under the browser's scheduling: an awaited promise settles in the
\* end, and so its continuation runs
SpecChatFair == SpecChat /\ WF_vars(Settle)

\* ------------------------------------------- reading a dropped directory
\* what a dropped directory may hold: files, and a subdirectory whose reader
\* hands out two batches
WalkEntries ==
  { FileEntry(<<"/","d","/","a",".","b">>, fileAB),
    FileEntry(<<"/","d","/","c">>, fileC),
    DirectoryEntry(<<"/","d","/","e">>,
      << << FileEntry(<<"/","d","/","e","/",".","h">>, fileHidden) >>,
         << FileEntry(<<"/","d","/","e","/","z">>, fileZero) >> >>) }

\* the batches a reader hands out: one or two entries each
WalkBatches == { q \in DistinctSeqs(WalkEntries) : Len(q) <= 2 }

\* a call of getFilesFromEntry on a directory whose reader will hand out the
\* batches of readBatches, and after them the empty batch
InitWalk ==
  /\ InitApp /\ InitChat /\ rn = IdleRename /\ boot = Mounted
  /\ preserveFolders = TRUE /\ archive = NoArchive /\ post = IdlePost
  /\ walk \in { [ pc |-> "reading", readBatches |-> b, calls |-> 0,
                   allEntries |-> <<>>, files |-> <<>> ] :
                 b \in UNION { [1..n -> WalkBatches] : n \in 0..MaxBatches } }

\* a faulty variant of drained: the reader is asked once only
drainedAfterOneBatch(allEntries, entries) ==
  Len(entries) = 0 \/ Len(allEntries) > 0

\* the callback of readEntries resolves on this: entries.length === 0
drained(allEntries, entries) == Len(entries) = 0

\* readEntries calls back with the reader's next batch: resolve(allEntries)
\* on the empty batch, after which getFilesFromEntry maps its own call over
\* the entries and flattens; otherwise concat and readEntries() again
ReadEntries ==
  /\ walk.pc = "reading"
  /\ LET entries == IF walk.calls + 1 <= Len(walk.readBatches)
                    THEN walk.readBatches[walk.calls + 1] ELSE <<>>
     IN  IF drained(walk.allEntries, entries)
         THEN walk' = [walk EXCEPT
                         !.pc = "resolved", !.calls = @ + 1,
                         !.files = flat([i \in 1..Len(walk.allEntries) |->
                                           getFilesFromEntry(walk.allEntries[i])])]
         ELSE walk' = [walk EXCEPT
                         !.calls = @ + 1, !.allEntries = @ \o entries]
  /\ UNCHANGED <<appVars, chatVars, rn, boot, preserveFolders, archive, post>>

\* readEntries calls its error callback: the promise rejects
ReadEntriesError ==
  /\ walk.pc = "reading"
  /\ walk' = [walk EXCEPT !.pc = "rejected", !.calls = @ + 1]
  /\ UNCHANGED <<appVars, chatVars, rn, boot, preserveFolders, archive, post>>

NextWalk == ReadEntries \/ ReadEntriesError

SpecWalk == InitWalk /\ [][NextWalk]_vars

\* ------------------------------------------------------------- export
\* drops whose files meet in the archive: a file and a folder that holds a
\* file of the same name, and two files that differ in their extension only
ExportDrops ==
  { [ hasGetAsEntry |-> TRUE, files |-> <<>>,
      items |-> << FileEntry(<<"/","c">>, fileC),
                   DirectoryEntry(<<"/","d">>,
                     << << FileEntry(<<"/","d","/","c">>, fileAB) >> >>) >> ],
    [ hasGetAsEntry |-> TRUE, files |-> <<>>,
      items |-> << FileEntry(<<"/","a",".","b">>, fileAB),
                   FileEntry(<<"/","a",".","c">>, File(<<"a",".","c">>, <<>>, <<71>>)) >> ] }

\* the WorkingSets an ingestion leaves behind
WorkingSets ==
  { PromiseAll(Batch("entries", "read", NoDataTransfer,
                     extractFilesFromDataTransfer(dataTransfer), e)) :
      dataTransfer \in DataTransfers \cup ExportDrops, e \in TargetTypes }
  \ { <<>> }

\* the files view after an ingestion, the folder flag as the user left it
InitExport ==
  /\ InitChat /\ rn = IdleRename /\ boot = Mounted
  /\ walk = IdleWalk /\ post = IdlePost /\ archive = NoArchive
  /\ processedFiles \in WorkingSets
  /\ preserveFolders \in BOOLEAN
  /\ view = "files"
  /\ targetConversionType = processedFiles[1].newType
  /\ isLoading = FALSE
  /\ alertOpen = "none"
  /\ batches = <<>>
  /\ ingested = NoIngestion
  /\ localStorage =
       [ saveStateToLocalStorage(EmptyStore, processedFiles)
         EXCEPT !.fileConverterTargetType = Item(targetConversionType),
                !.fileConverterPreserveFolders =
                   Item(IF preserveFolders THEN "true" ELSE "false") ]

\* zip.file(path, content): a new entry, or new content for the entry that
\* has this path already
zipFile(zip, path, content) ==
  IF \E i \in 1..Len(zip) : zip[i].name = path
  THEN [i \in 1..Len(zip) |->
         IF zip[i].name = path THEN [zip[i] EXCEPT !.content = content] ELSE zip[i]]
  ELSE Append(zip, [name |-> path, content |-> content])

\* the path handleDownloadZip gives a file:
\* preserveFolders ? file.newPath : (file.newPath.split('/').pop() || file.newPath)
zipPath(file, preserve) ==
  IF preserve THEN file.newPath
  ELSE LET leaf == Last(split(file.newPath, "/"))
       IN  IF leaf # <<>> THEN leaf ELSE file.newPath

\* processedFiles.forEach(file => zip.file(path, file.content))
RECURSIVE zipAll(_, _, _)
zipAll(zip, files, preserve) ==
  IF Len(files) = 0 THEN zip
  ELSE zipAll(zipFile(zip, zipPath(files[1], preserve), files[1].content),
              Tail(files), preserve)

\* handleDownloadZip: nothing on an empty WorkingSet, else the archive is
\* built and handed to the browser as a download
handleDownloadZip ==
  IF Len(processedFiles) = 0 THEN UNCHANGED archive
  ELSE archive' = [ made |-> TRUE, files |-> processedFiles,
                    preserveFolders |-> preserveFolders,
                    zip |-> zipAll(<<>>, processedFiles, preserveFolders),
                    download |-> <<"converted-files.zip">>, text |-> <<>> ]

\* the text handleDownloadAsTxt builds: a heading, then every file between
\* its START and END lines
combinedContent(files) ==
  <<"Generated by File Converter & AI Analyst\n\n">>
  \o joinTexts([i \in 1..Len(files) |->
                  <<"--- START OF FILE: ">> \o files[i].originalPath \o <<" ---\n\n">>
                  \o decodeFileContent(files[i].content)
                  \o <<"\n\n--- END OF FILE: ">> \o files[i].originalPath
                  \o <<" ---\n\n">>],
               <<>>)

\* handleDownloadAsTxt: nothing on an empty WorkingSet, else the text is
\* handed to the browser as a download
handleDownloadAsTxt ==
  IF Len(processedFiles) = 0 THEN UNCHANGED archive
  ELSE archive' = [ made |-> FALSE, files |-> processedFiles,
                    preserveFolders |-> preserveFolders, zip |-> <<>>,
                    download |-> <<"combined-files.txt">>,
                    text |-> combinedContent(processedFiles) ]

\* handleSingleFileDownload: the bytes of the file under the last segment of
\* its new path, a.download = file.newPath.split('/').pop() || 'downloaded-file'
handleSingleFileDownload(file) ==
  archive' = [ made |-> FALSE, files |-> << file >>,
               preserveFolders |-> preserveFolders, zip |-> <<>>,
               download |-> LET leaf == Last(split(file.newPath, "/"))
                            IN  IF leaf # <<>> THEN leaf ELSE <<"downloaded-file">>,
               text |-> <<>> ]

\* the button "Download All (.zip)" of the files view
DownloadZip ==
  /\ alertOpen = "none"
  /\ view = "files" /\ Len(processedFiles) > 0
  /\ handleDownloadZip
  /\ UNCHANGED <<appVars, chatVars, rn, boot, walk, preserveFolders, post>>

\* the button, with generateAsync rejecting: alert("Error creating zip file.")
DownloadZipFails ==
  /\ alertOpen = "none"
  /\ view = "files" /\ Len(processedFiles) > 0
  /\ alertOpen' = "Error creating zip file."
  /\ UNCHANGED <<processedFiles, view, targetConversionType, isLoading,
                 localStorage, batches, ingested>>
  /\ UNCHANGED <<chatVars, rn, otherVars>>

\* the key 'r' outside a text control: the single file is downloaded as it
\* is, several files as the archive
KeyPressR ==
  /\ alertOpen = "none"
  /\ Len(processedFiles) > 0
  /\ IF Len(processedFiles) = 1 THEN handleSingleFileDownload(processedFiles[1])
     ELSE handleDownloadZip
  /\ UNCHANGED <<appVars, chatVars, rn, boot, walk, preserveFolders, post>>

\* the button "Download as .txt" of the files view
DownloadAsTxt ==
  /\ alertOpen = "none"
  /\ view = "files" /\ Len(processedFiles) > 0
  /\ handleDownloadAsTxt
  /\ UNCHANGED <<appVars, chatVars, rn, boot, walk, preserveFolders, post>>

\* handleGoBack
GoBack ==
  /\ alertOpen = "none"
  /\ view = "files"
  /\ view' = "upload"
  /\ UNCHANGED <<processedFiles, targetConversionType, isLoading, localStorage,
                 alertOpen, batches, ingested>>
  /\ UNCHANGED <<chatVars, rn, otherVars>>

\* the checkbox of the upload screen: setPreserveFolders; its effect stores
\* the flag
SetPreserveFolders(checked) ==
  /\ alertOpen = "none"
  /\ view = "upload"
  /\ checked # preserveFolders
  /\ preserveFolders' = checked
  /\ localStorage' = [localStorage EXCEPT !.fileConverterPreserveFolders =
                        Item(IF checked THEN "true" ELSE "false")]
  /\ UNCHANGED <<processedFiles, view, targetConversionType, isLoading,
                 alertOpen, batches, ingested>>
  /\ UNCHANGED <<chatVars, rn, boot, walk, archive, post>>

NextExport ==
  \/ DownloadZip
  \/ DownloadZipFails
  \/ DownloadAsTxt
  \/ KeyPressR
  \/ GoBack
  \/ \E checked \in BOOLEAN : SetPreserveFolders(checked)
  \/ DismissAlert

SpecExport == InitExport /\ [][NextExport]_vars

\* ------------------------------------------------- the whole page
\* when files may be dropped or picked, when an export may be asked for and
\* when the chat panel may move
IngestTurn ==
  /\ Len(batches) < MaxInFlight
  /\ messages = <<>> /\ input = <<>> /\ ~ attachedImage /\ send = IdleSend
  /\ archive = NoArchive
ExportTurn ==
  /\ batches = <<>>
  /\ messages = <<>> /\ input = <<>> /\ ~ attachedImage /\ send = IdleSend
ChatTurn ==
  /\ batches = <<>>
  /\ archive = NoArchive
  /\ alertOpen = "none"

\* ingestion, settings, export and the chat panel on one page, one activity
\* at a time: files are dropped or picked while nothing was exported and the
\* chat is untouched; exports and the chat run while no ingestion is in
\* flight, the exports with the chat untouched and the chat with nothing
\* exported.  The chat is followed for its first send, the question "q"
\* answered by chunks "a" or by an error
NextPage ==
  \/ \E dataTransfer \in RaceTransfers : IngestTurn /\ DropEntries(dataTransfer)
  \/ \E dataTransfer \in RaceTransfers : IngestTurn /\ DropFiles(dataTransfer)
  \/ \E file \in InputPool : IngestTurn /\ FileChange(<< file >>)
  \/ \E k \in 1..Len(batches) : ExtractResolve(k)
  \/ \E k \in 1..Len(batches) : ExtractReject(k)
  \/ \E k \in 1..Len(batches) : \E i \in 1..Len(batches[k].items) : ReadLoad(k, i)
  \/ \E k \in 1..Len(batches) : \E i \in 1..Len(batches[k].items) : ReadLoadLast(k, i)
  \/ \E k \in 1..Len(batches) : \E i \in 1..Len(batches[k].items) : ReadError(k, i)
  \/ DismissAlert
  \/ Clear
  \/ \E e \in TargetTypes : SetTargetType(e)
  \/ \E checked \in BOOLEAN : SetPreserveFolders(checked)
  \/ GoBack
  \/ ExportTurn /\ DownloadZip
  \/ ExportTurn /\ DownloadZipFails
  \/ ExportTurn /\ DownloadAsTxt
  \/ ExportTurn /\ KeyPressR
  \/ ChatTurn /\ Type(<<"q">>)
  \/ ChatTurn /\ AttachImage
  \/ ChatTurn /\ RemoveImage
  \/ ChatTurn /\ messages = <<>> /\ SendMessage
  \/ ChatTurn /\ ImageRead
  \/ ChatTurn /\ ImageReadError
  \/ ChatTurn /\ FetchReject
  \/ ChatTurn /\ FetchErrorStatus([parses |-> TRUE, error |-> <<"X">>], <<>>)
  \/ ChatTurn /\ FetchOk
  \/ ChatTurn /\ ReadChunk(<<"a">>)
  \/ ChatTurn /\ ReadDone
  \/ ChatTurn /\ ReadReject

SpecPage == Init /\ [][NextPage]_vars

\* ------------------------------------------- the request of a send
\* the chat panel opened on a WorkingSet, up to the request: the question is
\* typed, an image attached or not, and the request built
InitPrompt ==
  /\ InitChat /\ rn = IdleRename /\ boot = Mounted /\ InitOther
  /\ processedFiles \in WorkingSets \cup { <<>> }
  /\ view = IF Len(processedFiles) > 0 THEN "files" ELSE "upload"
  /\ targetConversionType = <<"t","s">>
  /\ isLoading = FALSE
  /\ alertOpen = "none"
  /\ batches = <<>>
  /\ ingested = NoIngestion
  /\ localStorage = saveStateToLocalStorage(EmptyStore, processedFiles)

NextPrompt ==
  \/ \E text \in Inputs : Type(text)
  \/ AttachImage
  \/ RemoveImage
  \/ SendMessage
  \/ ImageRead
  \/ ImageReadError

SpecPrompt == InitPrompt /\ [][NextPrompt]_vars

\* ------------------------------------------------- the chat endpoint
\* the bodies a request may carry: no JSON, JSON without contents, and JSON
\* whose contents is an empty array (truthy), a text part, or an image part
\* and a text part
RequestBodies == { "no JSON", "no contents", "[]", "[text]", "[image, text]" }

\* the texts of the chunks the model API streams; a chunk may carry no text
ChunkTexts == Chunks \cup { <<>> }

\* error.message of what generateContentStream or the stream throws
ErrorMessages == { <<"quota">>, <<>> }

\* a request arrives; the server has an API key or not
InitEndpoint ==
  /\ InitApp /\ InitChat /\ rn = IdleRename /\ boot = Mounted
  /\ walk = IdleWalk /\ preserveFolders = TRUE /\ archive = NoArchive
  /\ post \in { [IdlePost EXCEPT !.pc = "received", !.body = b, !.apiKey = k] :
                 b \in RequestBodies, k \in BOOLEAN }

\* a faulty variant of errorResponse: the status is left at its default
errorResponseOk(status, error) ==
  [ sent |-> TRUE, status |-> 200, contentType |-> "application/json",
    error |-> error ]

\* new Response(JSON.stringify({ error }), { status, headers: JSON })
errorResponse(status, error) ==
  [ sent |-> TRUE, status |-> status, contentType |-> "application/json",
    error |-> error ]

\* new Response(readableStream, { headers: text/plain }): status 200
streamResponse ==
  [ sent |-> TRUE, status |-> 200, contentType |-> "text/plain; charset=utf-8",
    error |-> <<>> ]

\* the catch block of POST
catchResponse(message) ==
  errorResponse(500, <<"An error occurred on the server: ">>
                     \o (IF message # <<>> THEN message ELSE <<"Unknown error">>))

\* POST up to its await of generateContentStream: req.json(), the API key,
\* contents
Handle ==
  /\ post.pc = "received"
  /\ post' =
       IF post.body = "no JSON"
       THEN [post EXCEPT !.pc = "responded", !.failure = "body",
                         !.response = catchResponse(<<"Unexpected token">>)]
       ELSE IF ~ post.apiKey
       THEN [post EXCEPT !.pc = "responded", !.failure = "apiKey",
                         !.response = errorResponse(500,
                            <<"API_KEY environment variable not set on the server.">>)]
       ELSE IF post.body = "no contents"
       THEN [post EXCEPT !.pc = "responded", !.failure = "contents",
                         !.response = errorResponse(400,
                            <<"Missing \"contents\" in request body">>)]
       ELSE [post EXCEPT !.pc = "generate"]
  /\ UNCHANGED <<appVars, chatVars, rn, boot, walk, preserveFolders, archive>>

\* generateContentStream rejects: the catch block answers
GenerateReject(message) ==
  /\ post.pc = "generate"
  /\ post' = [post EXCEPT !.pc = "responded", !.failure = "generate",
                          !.response = catchResponse(message)]
  /\ UNCHANGED <<appVars, chatVars, rn, boot, walk, preserveFolders, archive>>

\* generateContentStream resolves: the stream is made, its start function
\* begins to pull from the API stream, and the response is returned
GenerateResolve ==
  /\ post.pc = "generate"
  /\ post' = [post EXCEPT !.pc = "stream", !.response = streamResponse,
                          !.stream = "open"]
  /\ UNCHANGED <<appVars, chatVars, rn, boot, walk, preserveFolders, archive>>

\* the API stream yields a chunk: its text is enqueued unless it is empty
StreamChunk(text) ==
  /\ post.pc = "stream"
  /\ Len(post.chunks) < MaxChunks
  /\ post' = [post EXCEPT !.chunks = Append(@, text),
                          !.enqueued = IF text # <<>> THEN Append(@, text) ELSE @]
  /\ UNCHANGED <<appVars, chatVars, rn, boot, walk, preserveFolders, archive>>

\* the API stream ends: controller.close()
StreamEnd ==
  /\ post.pc = "stream"
  /\ post' = [post EXCEPT !.pc = "closed", !.stream = "closed"]
  /\ UNCHANGED <<appVars, chatVars, rn, boot, walk, preserveFolders, archive>>

\* the API stream throws while it is iterated: start rejects and the stream
\* is errored; the response left the handler before, no catch block runs
StreamFail ==
  /\ post.pc = "stream"
  /\ post' = [post EXCEPT !.pc = "errored", !.stream = "errored",
                          !.failure = "stream"]
  /\ UNCHANGED <<appVars, chatVars, rn, boot, walk, preserveFolders, archive>>

NextEndpoint ==
  \/ Handle
  \/ \E message \in ErrorMessages : GenerateReject(message)
  \/ GenerateResolve
  \/ \E text \in ChunkTexts : StreamChunk(text)
  \/ StreamEnd
  \/ StreamFail

SpecEndpoint == InitEndpoint /\ [][NextEndpoint]_vars

\* ------------------------------------------------ the start of the page
\* a file the picker once gave, as reader.onload made it
storedFile == onload([file |-> fileAB, path |-> fileAB.name], <<"t","s">>)

\* a serialized file: content is base64
serialized(file) == [file EXCEPT !.content = arrayBufferToBase64(file.content)]

\* what the working-set key may hold when the page starts: nothing, lists a
\* save has written, text that is no JSON, JSON that is no array, an array
\* whose element lacks the fields of a file, and a file whose content is no
\* base64
StoredStates ==
  { NoItem,
    Item(<< serialized(storedFile) >>),
    Item(<< serialized(storedFile), serialized([storedFile EXCEPT !.content = <<>>]) >>),
    MalformedItem,
    ObjectItem,
    Item(<< [content |-> <<>>] >>),
    Item(<< [serialized(storedFile) EXCEPT !.content = <<16>>] >>) }

\* what the chat-history key may hold when the page starts: nothing, a
\* conversation a save has written, text that is no JSON, and an array whose
\* element is no Message
StoredChats ==
  { NoItem,
    Item(<< Message("user", <<"q">>, "undefined"), Message("model", <<"a">>, "undefined") >>),
    MalformedItem,
    Item(<< [role |-> "system"] >>) }

\* the page is loaded: nothing has mounted, the store is what earlier visits
\* left, and the browser may refuse every access to it
InitStart ==
  /\ InitChat /\ rn = IdleRename
  /\ walk = IdleWalk /\ archive = NoArchive /\ post = IdlePost
  /\ preserveFolders = TRUE
  /\ processedFiles = <<>>
  /\ view = "upload"
  /\ targetConversionType = <<"t","s">>
  /\ isLoading = FALSE
  /\ alertOpen = "none"
  /\ batches = <<>>
  /\ ingested = NoIngestion
  /\ localStorage \in
       { [ throws |-> t, fileConverterState |-> s, chatHistory |-> c,
           fileConverterTargetType |-> e,
           fileConverterPreserveFolders |-> NoItem ] :
         t \in BOOLEAN, s \in StoredStates, c \in StoredChats,
         e \in { NoItem, Item(<<"m","d">>) } }
  /\ boot = [ app |-> "none", chat |-> "none", stored |-> localStorage ]

\* App mounts: the state initializers read the store, then the effects write
\* it.  getItem of the target type is not inside a try: with a store that
\* throws the render fails
MountApp ==
  /\ boot.app = "none"
  /\ IF localStorage.throws
     THEN /\ boot' = [boot EXCEPT !.app = "crashed"]
          /\ UNCHANGED <<processedFiles, view, targetConversionType, localStorage>>
     ELSE /\ boot' = [boot EXCEPT !.app = "mounted"]
          /\ processedFiles' = loadStateFromLocalStorage(localStorage)
          /\ view' = IF Len(processedFiles') > 0 THEN "files" ELSE "upload"
          /\ targetConversionType' =
               IF localStorage.fileConverterTargetType.present
               THEN localStorage.fileConverterTargetType.value ELSE <<"t","s">>
          /\ localStorage' =
               [ saveStateToLocalStorage(localStorage, processedFiles')
                 EXCEPT !.fileConverterTargetType = Item(targetConversionType'),
                        !.fileConverterPreserveFolders =
                           Item(IF preserveFolders THEN "true" ELSE "false") ]
  /\ UNCHANGED <<isLoading, alertOpen, batches, ingested>>
  /\ UNCHANGED <<chatVars, rn, walk, preserveFolders, archive, post>>

\* ChatSidebar mounts: messages start as loadChatFromLocalStorage gives them,
\* then the effect on messages saves them
MountChat ==
  /\ boot.chat = "none"
  /\ boot' = [boot EXCEPT !.chat = "mounted"]
  /\ messages' = loadChatFromLocalStorage(localStorage)
  /\ localStorage' = saveChatToLocalStorage(localStorage, messages')
  /\ UNCHANGED <<input, attachedImage, chatIsLoading, send>>
  /\ UNCHANGED <<appOnly, rn, walk, preserveFolders, archive, post>>

\* the second copy of the component mounts.  Its body is not part of the
\* file; its state and its effect on messages are those of the first copy,
\* with its own saveChatToLocalStorage
MountChat2 ==
  /\ boot.chat = "none"
  /\ boot' = [boot EXCEPT !.chat = "mounted2"]
  /\ messages' = loadChatFromLocalStorage(localStorage)
  /\ localStorage' = saveChatToLocalStorage2(localStorage, messages')
  /\ UNCHANGED <<input, attachedImage, chatIsLoading, send>>
  /\ UNCHANGED <<appOnly, rn, walk, preserveFolders, archive, post>>

NextStart ==
  \/ MountApp
  \/ MountChat
  \/ MountChat2
  \/ Clear

SpecStart == InitStart /\ [][NextStart]_vars

\* ===================================================================
\* Properties
\* ===================================================================
\* String.prototype.lastIndexOf for one character, 1-based, 0 when absent
LastIndexOf(s, c) ==
  IF \E i \in 1..Len(s) : s[i] = c
  THEN CHOOSE i \in 1..Len(s) : s[i] = c /\ \A j \in (i + 1)..Len(s) : s[j] # c
  ELSE 0

\* the leaf name of a path: what follows its last '/'
Leaf(p) == SubSeq(p, LastIndexOf(p, "/") + 1, Len(p))

\* x occurs in text as a run of consecutive fragments
Contains(text, x) ==
  \E i \in 0..(Len(text) - Len(x)) : SubSeq(text, i + 1, i + Len(x)) = x

\* C1: newPath is originalPath with only the final extension segment of the
\* leaf replaced by the target extension: everything up to and including the
\* last '/' is kept character by character, the base name is the leaf up to
\* its last '.' (the whole leaf without a '.'), and no '/' is doubled.
C1_NewPathReplacesOnlyExtension ==
  rn.pc # "start" =>
    LET p == rn.path
        slash == LastIndexOf(p, "/")
        leaf == Leaf(p)
        dot == LastIndexOf(leaf, ".")
        baseName == IF dot = 0 THEN leaf ELSE SubSeq(leaf, 1, dot - 1)
    IN  /\ rn.once = SubSeq(p, 1, slash) \o baseName \o <<".">> \o rn.target
        /\ \A i \in 1..(Len(rn.once) - 1) :
             ~ (rn.once[i] = "/" /\ rn.once[i + 1] = "/")

\* a path with a dotted directory and a leaf without '.' has been renamed
C1_Witness ==
  /\ rn.pc = "once"
  /\ rn.path = <<"a", ".", "/", "a">>
  /\ rn.once = <<"a", ".", "/", "a", ".">> \o rn.target

\* C2: the rename is idempotent: renaming the renamed path again with the
\* same target extension gives the renamed path.
C2_RenameIdempotent == rn.pc = "twice" => rn.twice = rn.once

\* a path whose leaf has an extension has been renamed twice
C2_Witness ==
  /\ rn.pc = "twice"
  /\ rn.path = <<"a", "/", "a", ".">> 
  /\ rn.once # rn.path

\* C3: no file whose leaf name starts with '.' is in the WorkingSet, whether
\* it came from directory entries, the flat file list or the file input.
C3_NoHiddenFileInWorkingSet ==
  \A i \in 1..Len(processedFiles) :
    ~ startsWith(Leaf(processedFiles[i].originalPath), ".")

\* C4: a dropped zero-byte file never becomes a FileRecord, neither through
\* directory entries nor through the flat file list: the items the walker
\* hands over hold no empty file, and neither does a WorkingSet made from a drop.
C4_NoZeroByteFileFromDrop ==
  /\ \A k \in 1..Len(batches) :
       (batches[k].source \in {"entries", "files"} /\ batches[k].stage = "read")
         => \A i \in 1..Len(batches[k].items) : batches[k].items[i].file.size > 0
  /\ ingested.source \in {"entries", "files"}
       => \A i \in 1..Len(processedFiles) : Len(processedFiles[i].content) > 0

\* C5: after an ingestion the WorkingSet holds one record per input item, in
\* the order of the items, whatever the order in which the reads completed.
C5_WorkingSetInInputOrder ==
  ingested.source # "none" =>
    /\ Len(processedFiles) = Len(ingested.items)
    /\ \A i \in 1..Len(processedFiles) :
         /\ processedFiles[i].originalPath = ingested.items[i].path
         /\ processedFiles[i].content = ingested.items[i].file.content

\* the WorkingSet comes from reads that completed out of input order
C5_Witness ==
  /\ ingested.source # "none"
  /\ Len(ingested.done) = 3
  /\ ingested.done[1] = 3 /\ ingested.done[2] = 1
  /\ Len(processedFiles) = 3

\* C6: a failed read fails the whole batch: the step that handles the failure
\* leaves the WorkingSet and the store as they were and opens an alert.
C6_FailedBatchChangesNothing ==
  [][ \A k \in 1..Len(batches) :
        ( \/ ExtractReject(k)
          \/ \E i \in 1..Len(batches[k].items) : ReadError(k, i) )
        => /\ processedFiles' = processedFiles
           /\ localStorage' = localStorage
           /\ alertOpen = "none" /\ alertOpen' # "none" ]_vars

\* a read failed while the WorkingSet held the files of an earlier ingestion
C6_Witness ==
  /\ alertOpen = "An error occurred while reading file"
  /\ Len(processedFiles) > 0
  /\ localStorage.fileConverterState.present
  /\ batches = <<>>

\* C7 as stated: a stream that ended has appended exactly one model message,
\* whose text is the concatenation of the chunks.
C7_ExactlyOneModelMessagePerStream ==
  send.pc = "done" =>
    /\ Len(messages) = send.base + 1
    /\ messages[send.base + 1].role = "model"
    /\ messages[send.base + 1].text = flat(send.received)

\* C7, amended: while a stream is read and after it ended, the conversation
\* is the one of the send up to the user message, followed by nothing when no
\* chunk has arrived, and by exactly one model message holding the chunks in
\* arrival order when at least one has.
C7_OneModelMessagePerNonEmptyStream ==
  send.pc \in {"read", "done"} =>
    /\ send.base >= 1 /\ messages[send.base].role = "user"
    /\ IF send.received = <<>>
       THEN Len(messages) = send.base
       ELSE /\ Len(messages) = send.base + 1
            /\ messages[send.base + 1].role = "model"
            /\ messages[send.base + 1].text = flat(send.received)

\* a stream of several different chunks has ended
C7_Witness ==
  /\ send.pc = "done"
  /\ send.received = << <<"a">>, <<"b">> >>
  /\ messages[Len(messages)].text = <<"a", "b">>

\* C8: after a non-success status with a JSON body {error: X} the send has
\* appended exactly one model message, and its text contains X.
C8_StatusErrorMessageContainsError ==
  (send.pc = "statusError" /\ send.errorBody.parses) =>
    /\ Len(messages) = send.base + 1
    /\ messages[send.base + 1].role = "model"
    /\ Contains(messages[send.base + 1].text, send.errorBody.error)

\* a non-success answer {error: "X"} has been turned into a message
C8_Witness ==
  /\ send.pc = "statusError"
  /\ send.errorBody = [parses |-> TRUE, error |-> <<"X">>]
  /\ Len(messages) = send.base + 1

\* C9: a send that ended in a transport error has added a single model
\* message, the error message, and left no partly built message behind.
C9_TransportErrorLeavesSingleMessage ==
  send.pc = "transportError" =>
    /\ Len(messages) = send.base + 1
    /\ messages[send.base + 1].role = "model"
    /\ Contains(messages[send.base + 1].text, <<"Sorry, an error occurred: ">>)

\* s is a prefix of t
IsPrefix(s, t) == Len(s) <= Len(t) /\ SubSeq(t, 1, Len(s)) = s

\* C10: the conversation only grows, and a message already in it changes
\* only when it is the last one, a model message, and its stream is being
\* read; then its text is extended.  Outside a stream nothing changes.
C10_AppendOnlyButStreamingMessage ==
  [][ /\ Len(messages') >= Len(messages)
      /\ \A i \in 1..Len(messages) :
           \/ messages'[i] = messages[i]
           \/ /\ send.pc = "read"
              /\ i = Len(messages)
              /\ messages[i].role = "model" /\ messages'[i].role = "model"
              /\ IsPrefix(messages[i].text, messages'[i].text) ]_vars

\* a second send has streamed and failed after the first stream had ended,
\* and the messages of the first send are as they were
C10_Witness ==
  /\ send.pc = "transportError"
  /\ Len(messages) = 5
  /\ messages[2] = Message("model", <<"a", "b">>, "undefined")
  /\ messages[4].role = "model"
\* C11: every accepted send, whether it ends by end of stream, by a
\* non-success status or by a transport error, resets the loading flag to
\* false in the end, and with the flag reset a new send is accepted.
C11_SendEndsAndNextIsAccepted ==
  /\ chatIsLoading ~> (~ chatIsLoading /\ send.pc \in {"done", "statusError", "transportError", "imageError"})
  /\ [](( /\ ~ chatIsLoading
          /\ trim(input) # <<>> \/ attachedImage
          /\ Len(messages) < MaxMessages ) => ENABLED SendMessage)

\* a send was accepted after an earlier one had ended by a transport error
C11_Witness ==
  /\ chatIsLoading
  /\ send.pc = "fetch"
  /\ send.base = 3
  /\ messages[2].text = <<"Sorry, an error occurred: ", "Failed to fetch">>

\* C12: persisted state that is empty is deleted, never stored as an empty
\* value: with App mounted and the WorkingSet empty (from the start or after
\* a clear) the working-set key is absent, and with the chat mounted the
\* chat-history key does not hold an empty message list.
C12_EmptyStateDeletesKey ==
  ~ localStorage.throws =>
    /\ (boot.app = "mounted" /\ processedFiles = <<>>)
         => ~ localStorage.fileConverterState.present
    /\ boot.chat # "none"
         => ~ ( /\ localStorage.chatHistory.present
                /\ localStorage.chatHistory.json = "value"
                /\ localStorage.chatHistory.value = <<>> )

BadStoredState(item) ==
  item.present /\
    \/ item.json # "value"
    \/ \E i \in 1..Len(item.value) :
         \/ DOMAIN item.value[i] # DOMAIN storedFile
         \/ atobThrows(item.value[i].content)

\* the stored value of the chat-history key does not deserialize to a list
\* of messages
BadStoredChat(item) ==
  item.present /\
    \/ item.json # "value"
    \/ \E i \in 1..Len(item.value) : DOMAIN item.value[i] # {"role", "text", "image"}

RECURSIVE FilesInBatchOrder(_)
FilesInBatchOrder(entry) ==
  IF entry.isFile
  THEN << [ file |-> entry.file,
            path |-> IF entry.fullPath[1] = "/" THEN Tail(entry.fullPath)
                     ELSE entry.fullPath ] >>
  ELSE flat([b \in 1..Len(entry.readBatches) |->
              flat([i \in 1..Len(entry.readBatches[b]) |->
                     FilesInBatchOrder(entry.readBatches[b][i])])])

\* C15: reading a directory drains its reader: readEntries is called again
\* after every non-empty batch and not after the first empty one, and the
\* files returned for the directory are the files of all batches in batch
\* order, with subdirectories expanded in place.
C15_DirectoryReaderIsDrained ==
  /\ walk.pc = "reading"
       => walk.allEntries = flat(SubSeq(walk.readBatches, 1, walk.calls))
  /\ walk.pc = "resolved"
       => /\ walk.calls = Len(walk.readBatches) + 1
          /\ walk.allEntries = flat(walk.readBatches)
          /\ walk.allEntries = readAllDirectoryEntries(walk.readBatches)
          /\ walk.files =
               FilesInBatchOrder(DirectoryEntry(<<"/","d">>, walk.readBatches))

\* a directory of two batches was read, a subdirectory between two files
C15_Witness ==
  /\ walk.pc = "resolved"
  /\ walk.calls = 3
  /\ Len(walk.readBatches[1]) = 2 /\ walk.readBatches[1][2].isDirectory
  /\ Len(walk.files) = 4
  /\ walk.files[2].path = <<"d","/","e","/",".","h">>
  /\ walk.files[4].path = <<"d","/","a",".","b">>

\* C16: the archive holds one entry per FileRecord of the WorkingSet it was
\* made from, each FileRecord as an entry of its own with its raw bytes, at
\* its newPath when folder preservation was on and at the leaf name of
\* newPath when it was off.
C16_ArchiveHasOneEntryPerFileRecord ==
  archive.made =>
    /\ Len(archive.zip) = Len(archive.files)
    /\ \A i \in 1..Len(archive.files) :
         \E k \in 1..Len(archive.zip) :
           /\ archive.zip[k].name = IF archive.preserveFolders
                                     THEN archive.files[i].newPath
                                     ELSE Leaf(archive.files[i].newPath)
           /\ archive.zip[k].content = archive.files[i].content

\* the texts of blocks occur in text one after the other, in this order
RECURSIVE OccurInOrder(_, _)
OccurInOrder(text, blocks) ==
  IF Len(blocks) = 0 THEN TRUE
  ELSE \E i \in 0..(Len(text) - Len(blocks[1])) :
         /\ SubSeq(text, i + 1, i + Len(blocks[1])) = blocks[1]
         /\ OccurInOrder(SubSeq(text, i + Len(blocks[1]) + 1, Len(text)), Tail(blocks))

\* path and content of a file between its start marker and its end marker
MarkedFile(f) ==
  << "--- START OF FILE: " >> \o f.originalPath \o << " ---\n" >>
  \o [i \in 1..Len(f.content) |-> fromCharCode(f.content[i])]
  \o << "\n--- END OF FILE: " >> \o f.originalPath \o << " ---" >>

\* C17: the request payload is an ordered list of parts: with an image
\* attached one inline-image part first, then exactly one text part, last.
\* The text part is the raw question when the WorkingSet is empty; otherwise
\* it holds, for every file of the WorkingSet in order, its path and content
\* between start and end markers, followed by the question.
C17_RequestPartsInOrder ==
  send.pc \in {"fetch", "read", "done", "statusError", "transportError"} =>
    LET contents == send.contents
        question == messages[send.base].text
        withImage == messages[send.base].image = "url"
        text == contents[Len(contents)].text
    IN  /\ Len(contents) = IF withImage THEN 2 ELSE 1
        /\ withImage => contents[1].kind = "inlineData"
        /\ contents[Len(contents)].kind = "text"
        /\ Cardinality({ i \in 1..Len(contents) : contents[i].kind = "text" }) = 1
        /\ IF Len(processedFiles) = 0 THEN text = question
           ELSE OccurInOrder(text,
                  [i \in 1..Len(processedFiles) |-> MarkedFile(processedFiles[i])]
                  \o << << "\n\nUSER QUESTION:\n" >> \o question >>)
                /\ SubSeq(text, Len(text) - Len(question) + 1, Len(text)) = question

\* a question about three files was sent with an image
C17_Witness ==
  /\ send.pc = "fetch"
  /\ Len(processedFiles) = 3
  /\ Len(send.contents) = 2
  /\ send.contents[1].kind = "inlineData"
  /\ messages[send.base].text = <<"q">>
  /\ Contains(send.contents[2].text, <<"D", "E", "F">>)

\* the response is a success-status text/plain stream
IsTextStream(response) ==
  /\ response.status \in 200..299
  /\ response.contentType = "text/plain; charset=utf-8"
  /\ post.stream # "none"

\* the response is a JSON error object with a non-success status
IsJsonError(response) ==
  /\ response.status \notin 200..299
  /\ response.contentType = "application/json"
  /\ response.error # <<>>

\* C18 as stated: every response of the endpoint is a success-status
\* text/plain stream or a JSON error object with a non-success status; a
\* missing API key, missing contents and any failure while generating give a
\* JSON error object with a non-success status.
C18_FailureGivesJsonError ==
  /\ post.response.sent
       => IsTextStream(post.response) \/ IsJsonError(post.response)
  /\ post.failure # "none"
       => post.response.sent /\ IsJsonError(post.response)

\* C18, amended: the same for a missing API key, missing contents, a body
\* that is no JSON and a failure of starting the generation; a failure while
\* the generated chunks are streamed comes after the success response, whose
\* stream it errors.
C18_FailureBeforeStreamGivesJsonError ==
  /\ post.response.sent
       => IsTextStream(post.response) \/ IsJsonError(post.response)
  /\ post.failure \in {"body", "apiKey", "contents", "generate"}
       => post.response.sent /\ IsJsonError(post.response)
  /\ post.failure = "stream"
       => IsTextStream(post.response) /\ post.stream = "errored"

\* the generation failed to start for a request with contents
C18_Witness ==
  /\ post.failure = "generate"
  /\ post.body = "[image, text]"
  /\ post.response.status = 500
  /\ post.response.error = <<"An error occurred on the server: ", "Unknown error">>

\* C19: the ingestion pipeline completes (the loading flag is cleared, and
\* success or failure is reported) only after every read of the batch has
\* settled: the step that completes a batch leaves no read of it pending.
C19_CompletesAfterEveryReadSettled ==
  [][ \A k \in 1..Len(batches) : \A i \in 1..Len(batches[k].items) :
        (ReadLoadLast(k, i) \/ ReadError(k, i))
          => Pending(batches[k]) = {i} ]_vars

\* C20: when an ingestion starts while an earlier one is in flight, the
\* earlier one is not cancelled and its results are overwritten: the
\* WorkingSet holds the results of one ingestion, never a mixture of two, and
\* not those of an ingestion that a later-started one has overtaken.
C20_NewerIngestionWins ==
  ingested.source # "none" =>
    /\ ~ ingested.stale
    /\ Len(processedFiles) = Len(ingested.items)
    /\ \A i \in 1..Len(processedFiles) :
         processedFiles[i].id = fileId(ingested.items[i])

\* the user messages of a history
UserMessages(msgs) == { i \in 1..Len(msgs) : msgs[i].role = "user" }

\* C22: at most one send is in flight.  A user message is appended only by a
\* send that starts while the loading flag is false, with a question or an
\* image, and that send raises the flag; so none is appended between the user
\* message of a send and the end of its stream.  Every chunk after the first
\* is appended to the last message, the model message that follows the user
\* message of the send, and leaves the other messages as they are.
C22_OneSendInFlight ==
  [][ /\ UserMessages(messages') # UserMessages(messages)
          => /\ ~ chatIsLoading
             /\ trim(input) # <<>> \/ attachedImage
             /\ chatIsLoading'
             /\ messages' = Append(messages, Last(messages'))
      /\ chatIsLoading
          => /\ send'.base = send.base
             /\ messages[send.base].role = "user"
      /\ (send.pc = "read" /\ ~ send.isFirstChunk
            /\ send'.received # send.received)
          => /\ Len(messages) = send.base + 1
             /\ Len(messages') = Len(messages)
             /\ Front(messages') = Front(messages)
             /\ Last(messages').role = "model"
             /\ Last(messages').text =
                  Last(messages).text \o Last(send'.received) ]_vars

\* a stream has delivered its second chunk while the next question is typed
C22_Witness ==
  /\ chatIsLoading
  /\ send.pc = "read"
  /\ Len(send.received) >= 2
  /\ trim(input) # <<>>

\* C21: the WorkingSet changes only in the completion handler of an
\* ingestion and in the clear operation: every other step (a send, a chunk or
\* an error of the chat, a change of the target extension or of the folder
\* flag, going back, an export, a failed batch) leaves the WorkingSet and each
\* of its FileRecords as they are.
C21_WorkingSetChangesOnlyOnCompletionAndClear ==
  [][ processedFiles' # processedFiles
        => \/ \E k \in 1..Len(batches) : \E i \in 1..Len(batches[k].items) :
                ReadLoadLast(k, i)
           \/ Clear ]_vars

\* a WorkingSet that has lived through going back, a change of both settings
\* and an export
C21_Witness ==
  /\ Len(processedFiles) > 0
  /\ view = "upload"
  /\ targetConversionType # processedFiles[1].newType
  /\ ~ preserveFolders
  /\ archive.download # <<>>
  /\ archive.files = processedFiles

====
